---------------------------- MODULE Spec2Model ----------------------------
(***************************************************************************)
(* constlint: the analysis pass of analyzer/analyzer.go.                   *)
(*                                                                         *)
(* One run of the analyzer over one compilation unit is a state machine:   *)
(* the first inspector.Preorder indexes the +const markers of the type and *)
(* function declarations, the second visits the assignment statements and  *)
(* reports writes to indexed fields and parameters.  Comment texts are     *)
(* sequences of characters and the marker parsing is computed on them the  *)
(* way the strings package computes it.                                    *)
(***************************************************************************)
EXTENDS Integers, Sequences, FiniteSets, TLC

(***************************************************************************)
(* Bounds of the model.                                                    *)
(***************************************************************************)
\* the number of functions of the analysed program, over all its units: function
\* declarations and function literals of package-level variables
MaxFuncs == 2

(***************************************************************************)
(* strings: texts are sequences of one-character strings; indices into a   *)
(* text are 0-based as in Go.                                              *)
(***************************************************************************)
HasPrefixAt(text, pat, i) ==
    /\ i + Len(pat) <= Len(text)
    /\ \A k \in 1..Len(pat) : text[i + k] = pat[k]

\* strings.Index: the first 0-based offset of pat in text, -1 when absent.
Index(text, pat) ==
    LET hits == {i \in 0..Len(text) : HasPrefixAt(text, pat, i)}
    IN  IF hits = {} THEN -1
        ELSE CHOOSE i \in hits : \A j \in hits : i <= j

\* strings.Contains
Contains(text, pat) == Index(text, pat) /= -1

\* text[from:] with a 0-based offset
SliceFrom(text, from) == SubSeq(text, from + 1, Len(text))

\* text[from:to] with 0-based offsets
Slice(text, from, to) == SubSeq(text, from + 1, to)

IsSpace(c) == c \in {" ", "\t"}

\* strings.TrimSpace
TrimSpace(text) ==
    LET keep == {i \in 1..Len(text) : ~IsSpace(text[i])}
    IN  IF keep = {} THEN <<>>
        ELSE LET lo == CHOOSE i \in keep : \A j \in keep : i <= j
                 hi == CHOOSE i \in keep : \A j \in keep : j <= i
             IN  SubSeq(text, lo, hi)

RECURSIVE Split(_, _)
\* strings.Split with a one-character separator
Split(text, sep) ==
    LET i == Index(text, <<sep>>)
    IN  IF i = -1 THEN <<text>>
        ELSE <<Slice(text, 0, i)>> \o Split(SliceFrom(text, i + 1), sep)


(***************************************************************************)
(* The literals the analyzer searches comment texts for.                   *)
(***************************************************************************)
\* "+const", the field marker (analyzer.go:76, 86)
FieldMarker == <<"+", "c", "o", "n", "s", "t">>

\* "// +const", the standalone all-parameters marker (analyzer.go:127)
StandaloneMarker == <<"/", "/", " ">> \o FieldMarker

\* "// +const:[", the opening of the explicit-list marker (analyzer.go:116)
ListMarker == StandaloneMarker \o <<":", "[">>

(***************************************************************************)
(* Identifiers and comment lines of the analysed sources (testdata).       *)
(***************************************************************************)
N_name == <<"n", "a", "m", "e">>

N_age == <<"a", "g", "e">>

N_email == <<"e", "m", "a", "i", "l">>

N_p == <<"p">>

N_data == <<"d", "a", "t", "a">>

N_result == <<"r", "e", "s", "u", "l", "t">>

N_blank == <<"_">>

N_total == <<"t", "o", "t", "a", "l">>

\* "// doc": a comment line without any marker
CmtPlain == <<"/", "/", " ", "d", "o", "c">>

\* "// +const"
CmtConst == <<"/", "/", " ", "+", "c", "o", "n", "s", "t">>

\* "// +const " (trailing blank)
CmtConstTrail == CmtConst \o <<" ">>

\* "// +const:[name, age]"
CmtListNameAge == CmtConst \o <<":", "[">> \o N_name \o <<",", " ">> \o N_age \o <<"]">>

\* "// +const:[p]"
CmtListP == CmtConst \o <<":", "[">> \o N_p \o <<"]">>

\* "// +const:[data]"
CmtListData == CmtConst \o <<":", "[">> \o N_data \o <<"]">>

\* "// +const:[name]"
CmtListName == CmtConst \o <<":", "[">> \o N_name \o <<"]">>

\* "// +const:[name, total]"
CmtListNameTotal == CmtConst \o <<":", "[">> \o N_name \o <<",", " ">> \o N_total \o <<"]">>

\* "// +const:[name": an explicit list that is never closed
CmtOpenList == CmtConst \o <<":", "[">> \o N_name

\* "// +const:[": an unclosed marker with nothing after the bracket
CmtOpenBare == CmtConst \o <<":", "[">>

(***************************************************************************)
(* go/types: type names are objects with an identity; PersonA and PersonB  *)
(* are two distinct declarations that are both spelled "Person".           *)
(***************************************************************************)
TypeObjs == {"PersonA", "PersonB", "OtherObject", "Kind"}

\* types.TypeName.Name()
TypeNameOf(obj) ==
    CASE obj = "PersonA" -> "Person"
      [] obj = "PersonB" -> "Person"
      [] OTHER -> obj

\* a types.Named type, a types.Pointer to one, a type that is neither
Named(obj) == [ptr |-> 0, named |-> obj]

PtrTo(t) == [ptr |-> t.ptr + 1, named |-> t.named]

Unnamed == [ptr |-> 0, named |-> "none"]

\* the nil types.Type that TypesInfo.TypeOf returns for an expression it has no type for
NoType == [ptr |-> 0, named |-> "nil"]

\* types.Identical on the types of the model
Identical(t1, t2) == t1 /= NoType /\ t1 = t2

(***************************************************************************)
(* go/ast: the nodes the analyzer looks at.                                *)
(***************************************************************************)
\* ast.Field of a struct type
Field(names, doc, comment) == [names |-> names, doc |-> doc, comment |-> comment]

\* ast.TypeSpec
TypeSpec(obj, isStruct, fields) ==
    [kind |-> "type", obj |-> obj, isStruct |-> isStruct, fields |-> fields]

\* ast.FuncDecl; recv is NoType for a function that is not a method
FuncDecl(name, recv, results, doc, params, body) ==
    [kind |-> "func", name |-> name, recv |-> recv, results |-> results,
     doc |-> doc, params |-> params, body |-> body]

\* ast.GenDecl of a package-level variable whose initializer is a function literal
\* with the statements body
GenDecl(body) == [kind |-> "var", body |-> body]

\* ast.CompositeLit: the type of its Type expression, and whether & is applied to it
Lit(type, addr) == [type |-> type, addr |-> addr]

\* ast.AssignStmt with its token, its targets and the literals of its right-hand side
Assign(tok, lhs, lits) == [assign |-> TRUE, tok |-> tok, lhs |-> lhs, lits |-> lits]

\* any other statement, with the composite literals it contains
Stmt(lits) == [assign |-> FALSE, tok |-> "", lhs |-> <<>>, lits |-> lits]

\* ast.SelectorExpr x.sel that is a field selection on a receiver of static type recv
Sel(recv, sel) ==
    [kind |-> "sel", selKind |-> "FieldVal", recv |-> recv, sel |-> sel,
     name |-> <<>>, obj |-> "nil"]

\* ast.SelectorExpr pkg.Name: a qualified identifier, absent from TypesInfo.Selections
QualSel(sel) ==
    [kind |-> "sel", selKind |-> "none", recv |-> NoType, sel |-> sel,
     name |-> <<>>, obj |-> "nil"]

\* ast.Ident; obj is what TypesInfo.ObjectOf resolves it to ("nil" for the blank identifier)
Ident(name, obj) ==
    [kind |-> "ident", selKind |-> "none", recv |-> NoType, sel |-> "",
     name |-> name, obj |-> obj]

\* an index expression or a pointer dereference on the left-hand side
OtherExpr ==
    [kind |-> "other", selKind |-> "none", recv |-> NoType, sel |-> "",
     name |-> <<>>, obj |-> "nil"]

(***************************************************************************)
(* The declarations a compilation unit is built from.  The struct types    *)
(* and the first eight functions are those of analyzer/testdata/src/a; the *)
(* others exercise the remaining paths of the analyzer.                    *)
(***************************************************************************)
\* type Person struct: Name and PreferredName marked in the doc comment, Email inline
TSPersonA ==
    TypeSpec("PersonA", TRUE,
             <<Field(<<"Name">>, <<CmtPlain, CmtConst>>, <<>>),
               Field(<<"PreferredName">>, <<CmtConstTrail, CmtPlain>>, <<>>),
               Field(<<"Age">>, <<CmtPlain>>, <<>>),
               Field(<<"Email">>, <<CmtPlain>>, <<CmtConst>>)>>)

\* another type Person (a different declaration): Name bare, Age commented,
\* Email with the unclosed "// +const:[", Nick and Alias sharing an inline marker
TSPersonB ==
    TypeSpec("PersonB", TRUE,
             <<Field(<<"Name">>, <<>>, <<>>),
               Field(<<"Age">>, <<>>, <<CmtPlain>>),
               Field(<<"Email">>, <<CmtOpenBare>>, <<>>),
               Field(<<"Nick", "Alias">>, <<>>, <<CmtConst>>)>>)

\* type Kind int: a type declaration that is not a struct
TSKind == TypeSpec("Kind", FALSE, <<>>)

TypePool == <<TSPersonA, TSPersonB, TSKind>>

\* the type declarations of a unit, as indices into TypePool
TypeMenus == {<<>>, <<1>>, <<2>>, <<3, 1, 2>>}

PA == Named("PersonA")

PB == Named("PersonB")

\* func (p *Person) SetName(name string) { p.Name = name }
FSetName ==
    FuncDecl("SetName", PtrTo(PA), <<>>, <<CmtPlain>>, <<N_name>>,
             <<Assign("=", <<Sel(PtrTo(PA), "Name")>>, <<>>)>>)

\* func UpdatePerson(p *Person) { p.Name = ..; p.Age = ..; p.Email = .. }
FUpdatePerson ==
    FuncDecl("UpdatePerson", NoType, <<>>, <<CmtPlain>>, <<N_p>>,
             <<Assign("=", <<Sel(PtrTo(PA), "Name")>>, <<>>),
               Assign("=", <<Sel(PtrTo(PA), "Age")>>, <<>>),
               Assign("=", <<Sel(PtrTo(PA), "Email")>>, <<>>)>>)

\* func CreatePerson() *Person { p := &Person{}; p.Name = ..; p.Age = ..; return p }
FCreatePerson ==
    FuncDecl("CreatePerson", NoType, <<PtrTo(PA)>>, <<CmtPlain>>, <<>>,
             <<Assign(":=", <<Ident(N_p, "local")>>, <<Lit(PA, TRUE)>>),
               Assign("=", <<Sel(PtrTo(PA), "Name")>>, <<>>),
               Assign("=", <<Sel(PtrTo(PA), "Age")>>, <<>>),
               Stmt(<<>>)>>)

\* func (o *OtherObject) SetPersonDetails(..) { o.P = &Person{}; o.P.Name = name; o.P.Email = email }
FSetPersonDetails ==
    FuncDecl("SetPersonDetails", PtrTo(Named("OtherObject")), <<>>, <<CmtPlain>>,
             <<N_name, N_email, N_age>>,
             <<Assign("=", <<Sel(PtrTo(Named("OtherObject")), "P")>>, <<Lit(PA, TRUE)>>),
               Assign("=", <<Sel(PtrTo(PA), "Name")>>, <<>>),
               Assign("=", <<Sel(PtrTo(PA), "Email")>>, <<>>)>>)

\* // +const:[name, age]
\* func UpdatePersonWithConstParams(name string, age int, email string) { name = ..; age = ..; email = .. }
FUpdatePersonWithConstParams ==
    FuncDecl("UpdatePersonWithConstParams", NoType, <<>>, <<CmtPlain, CmtListNameAge>>,
             <<N_name, N_age, N_email>>,
             <<Assign("=", <<Ident(N_name, "param")>>, <<>>),
               Assign("=", <<Ident(N_age, "param")>>, <<>>),
               Assign("=", <<Ident(N_email, "param")>>, <<>>)>>)

\* func RegularFunction(name string, age int) { name = ..; age = .. }
FRegularFunction ==
    FuncDecl("RegularFunction", NoType, <<>>, <<CmtPlain>>, <<N_name, N_age>>,
             <<Assign("=", <<Ident(N_name, "param")>>, <<>>),
               Assign("=", <<Ident(N_age, "param")>>, <<>>)>>)

\* // +const:[p]
\* func UpdatePersonObject(p *Person) { p = &Person{}; p.Name = "Bob"; p.Age = 40 }
FUpdatePersonObject ==
    FuncDecl("UpdatePersonObject", NoType, <<>>, <<CmtPlain, CmtListP>>, <<N_p>>,
             <<Assign("=", <<Ident(N_p, "param")>>, <<Lit(PA, TRUE)>>),
               Assign("=", <<Sel(PtrTo(PA), "Name")>>, <<>>),
               Assign("=", <<Sel(PtrTo(PA), "Age")>>, <<>>)>>)

\* // +const:[data]
\* func ProcessData(data []int, result *int) { data = append(data, 5); *result = data[0] }
FProcessData ==
    FuncDecl("ProcessData", NoType, <<>>, <<CmtPlain, CmtListData>>, <<N_data, N_result>>,
             <<Assign("=", <<Ident(N_data, "param")>>, <<>>),
               Assign("=", <<OtherExpr>>, <<>>)>>)

\* // +const
\* func ResetAll(p *Person, name string) { p, name = &Person{}, ""; p.Email += name }
FResetAll ==
    FuncDecl("ResetAll", NoType, <<>>, <<CmtPlain, CmtConst>>, <<N_p, N_name>>,
             <<Assign("=", <<Ident(N_p, "param"), Ident(N_name, "param")>>, <<Lit(PA, TRUE)>>),
               Assign("+=", <<Sel(PtrTo(PA), "Email")>>, <<>>)>>)

\* func Touch(p Person, q *Person) { p.Name, q.Email = "x", "y"; if false { _ = Person{} } }
FTouch ==
    FuncDecl("Touch", NoType, <<>>, <<>>, <<N_p>>,
             <<Assign("=", <<Sel(PA, "Name"), Sel(PtrTo(PA), "Email")>>, <<>>),
               Assign("=", <<Ident(N_blank, "nil")>>, <<Lit(PA, FALSE)>>)>>)

\* func NewPersonNamed(name string) *Person { p := new(Person); p.Name = name; return p }
FNewPersonNamed ==
    FuncDecl("NewPersonNamed", NoType, <<PtrTo(PA)>>, <<CmtPlain>>, <<N_name>>,
             <<Assign(":=", <<Ident(N_p, "local")>>, <<>>),
               Assign("=", <<Sel(PtrTo(PA), "Name")>>, <<>>),
               Stmt(<<>>)>>)

\* func (p *Person) InitName(name string) { p.Name = name }
FInitName ==
    FuncDecl("InitName", PtrTo(PA), <<>>, <<CmtPlain>>, <<N_name>>,
             <<Assign("=", <<Sel(PtrTo(PA), "Name")>>, <<>>)>>)

\* // +const:[name]
\* func Shadow(name string, age int) { if age > 0 { name := "x"; name, age := "y", 1 } }
FShadow ==
    FuncDecl("Shadow", NoType, <<>>, <<CmtListName>>, <<N_name, N_age>>,
             <<Assign(":=", <<Ident(N_name, "local")>>, <<>>),
               Assign(":=", <<Ident(N_name, "local"), Ident(N_age, "local")>>, <<>>)>>)

\* func (q *Person) Update(name string) { q.Name = name; q.Email = name; q.Alias = name }
\* on the second Person type; other.Default = name writes a variable of another package
FUpdateB ==
    FuncDecl("Update", PtrTo(PB), <<>>, <<CmtPlain>>, <<N_name>>,
             <<Assign("=", <<Sel(PtrTo(PB), "Name")>>, <<>>),
               Assign("=", <<Sel(PtrTo(PB), "Email"), QualSel("Default")>>, <<>>),
               Assign("=", <<Sel(PB, "Alias")>>, <<>>)>>)

\* // +const:[name
\* func Rename(name string, age int) { name = "x"; age = 1 }
FRename ==
    FuncDecl("Rename", NoType, <<>>, <<CmtOpenList>>, <<N_name, N_age>>,
             <<Assign("=", <<Ident(N_name, "param")>>, <<>>),
               Assign("=", <<Ident(N_age, "param")>>, <<>>)>>)

\* // +const:[name
\* // +const:[p]
\* func Relabel(p *Person, name string) { name = "x"; p = nil; s := struct{ Name string }{}; s.Name = name }
FRelabel ==
    FuncDecl("Relabel", NoType, <<>>, <<CmtOpenList, CmtListP>>, <<N_p, N_name>>,
             <<Assign("=", <<Ident(N_name, "param")>>, <<>>),
               Assign("=", <<Ident(N_p, "param")>>, <<>>),
               Assign(":=", <<Ident(<<"s">>, "local")>>, <<Lit(Unnamed, FALSE)>>),
               Assign("=", <<Sel(Unnamed, "Name")>>, <<>>)>>)

\* // +const
\* // +const:[name]
\* func (p *Person) Apply(name string, age int) { age = 1; if age > 0 { name := "a"; name = "b" } }
FApplyA ==
    FuncDecl("Apply", PtrTo(PA), <<>>, <<CmtConst, CmtListName>>, <<N_name, N_age>>,
             <<Assign("=", <<Ident(N_age, "param")>>, <<>>),
               Assign(":=", <<Ident(N_name, "local")>>, <<>>),
               Assign("=", <<Ident(N_name, "local")>>, <<>>)>>)

\* // +const:[name, total]
\* // +const
\* func (o *OtherObject) Apply(name string, age int) {
\*     total = 1; age, o.list[0], name = 2, 0, "y"; func(name string) { name = "z" }("") }
\* total is a variable of the package, the last name the parameter of the literal
FApplyO ==
    FuncDecl("Apply", PtrTo(Named("OtherObject")), <<>>, <<CmtListNameTotal, CmtConst>>,
             <<N_name, N_age>>,
             <<Assign("=", <<Ident(N_total, "pkgvar")>>, <<>>),
               Assign("=", <<Ident(N_age, "param"), OtherExpr, Ident(N_name, "param")>>, <<>>),
               Assign("=", <<Ident(N_name, "litparam")>>, <<>>)>>)

FuncPool ==
    <<FSetName, FUpdatePerson, FCreatePerson, FSetPersonDetails,
      FUpdatePersonWithConstParams, FRegularFunction, FUpdatePersonObject,
      FProcessData, FResetAll, FTouch, FNewPersonNamed, FInitName, FShadow,
      FUpdateB, FRename, FRelabel, FApplyA, FApplyO>>

\* var hook = func(p *Person, name string) { name = "x"; p.Name = name }
VHook ==
    GenDecl(<<Assign("=", <<Ident(N_name, "litparam")>>, <<>>),
              Assign("=", <<Sel(PtrTo(PA), "Name")>>, <<>>)>>)

\* how the declarations of a unit are laid out in its files:
\*   "plain"       one file: the types, then the functions
\*   "typesLater"  the functions in one file, the types in a later file
\*   "hookFirst"   one file: the types, var hook, then the functions
\*   "hookLast"    one file: the types, the functions, then var hook
\*   "hookFile"    the types and the functions in one file, var hook in a later file
Layouts == {"plain", "typesLater", "hookFirst", "hookLast", "hookFile"}

HookLayouts == {"hookFirst", "hookLast", "hookFile"}

\* the strictly increasing sequences over 1..n of length at most k: the choices of
\* at most k declarations of a pool of n, kept in the order of the pool
RECURSIVE Picks(_, _)
Picks(n, k) ==
    IF n = 0 \/ k = 0 THEN {<<>>}
    ELSE Picks(n - 1, k) \cup {Append(q, n) : q \in Picks(n - 1, k - 1)}

\* the number of functions of unit u
Size(u) == Len(u.funcs) + (IF u.layout \in HookLayouts THEN 1 ELSE 0)

\* the units with at most k functions
UnitsUpTo(k) ==
    {u \in [types : TypeMenus, funcs : Picks(Len(FuncPool), k), layout : Layouts] :
        /\ u.layout /= "plain" => u.types = <<1>>
        /\ Size(u) <= k}

\* a compilation unit (the files of one analysis.Pass): its type declarations, its
\* function declarations and the layout of its files
Units == UnitsUpTo(MaxFuncs)

\* the declarations of unit u in source order, file after file
declList(u) ==
    LET T == [i \in 1..Len(u.types) |-> TypePool[u.types[i]]]
        F == [i \in 1..Len(u.funcs) |-> FuncPool[u.funcs[i]]]
    IN  CASE u.layout = "plain" -> T \o F
          [] u.layout = "typesLater" -> F \o T
          [] u.layout = "hookFirst" -> T \o <<VHook>> \o F
          [] OTHER -> T \o F \o <<VHook>>

\* the first declaration of the file that declaration d of unit u lies in
fileStart(u, d) ==
    CASE u.layout = "typesLater" /\ d > Len(u.funcs) -> Len(u.funcs) + 1
      [] u.layout = "hookFile" /\ d > Len(u.types) + Len(u.funcs) -> d
      [] OTHER -> 1

\* the syntax trees of the units (pass.Files)
Files == [u \in Units |-> declList(u)]

\* the declarations of unit u in the order inspector.Preorder meets them
Decls(u) == declList(u)

\* pass.Pkg.Path() of the unit under analysis
PkgPath(u) == "a"

\* token.Pos of the k-th name of the f-th field of the struct declared by declaration d
FieldPos(d, f, k) == [decl |-> d, field |-> f, name |-> k]

\* token.Pos of the function declaration d (node.Pos())
FuncPos(d) == [decl |-> d, field |-> 0, name |-> 0]

\* token.Pos of the l-th left-hand target of statement s of declaration d
SitePos(d, s, l) == [decl |-> d, stmt |-> s, lhs |-> l]

\* the assignment statements of unit u in source order
assignList(u) ==
    LET ds == Decls(u)
        all == UNION {{[decl |-> d, stmt |-> st] :
                          st \in {x \in DOMAIN ds[d].body : ds[d].body[x].assign}} :
                      d \in {x \in DOMAIN ds : ds[x].kind \in {"func", "var"}}}
        Before(a, b) == a.decl < b.decl \/ (a.decl = b.decl /\ a.stmt < b.stmt)
    IN  [i \in 1..Cardinality(all) |->
            CHOOSE n \in all : Cardinality({m \in all : Before(m, n)}) = i - 1]

\* the assignment statements of every unit
AssignStmts == [u \in Units |-> assignList(u)]

\* the assignment statements of the unit in the order the second Preorder visits them
AssignNodes(u) == assignList(u)

(***************************************************************************)
(* The state of the analyzer.                                              *)
(***************************************************************************)
VARIABLES
    pc,           \* where run is: "idle", "index" (first pass), "scan" (second pass), "done"
    loaded,       \* how many functions the driver has handed to run so far
    unit,         \* the compilation unit of the current analysis.Pass
    cur,          \* the next node of the traversal in progress
    constFields,  \* map[constField]token.Pos
    constParams,  \* map[constParam]token.Pos
    diags         \* the diagnostics of the current pass, in the order pass.Reportf was called

vars == <<pc, loaded, unit, cur, constFields, constParams, diags>>

\* make(map[...]token.Pos)
EmptyMap == [k \in {} |-> 0]

\* m[k] = v for every entry of new, in order over old
Store(old, new) ==
    [k \in DOMAIN old \cup DOMAIN new |-> IF k \in DOMAIN new THEN new[k] ELSE old[k]]

(***************************************************************************)
(* First pass, case *ast.TypeSpec.                                         *)
(***************************************************************************)
\* a comment of the group is "+const" and nothing else
groupHasMarker_Exact(group) ==
    \E i \in DOMAIN group : TrimSpace(group[i]) = StandaloneMarker

\* some comment of the group contains "+const"
groupHasMarker(group) ==
    \E i \in DOMAIN group : Contains(group[i], FieldMarker)

\* hasConstMarker when only the doc comments are looked at
hasConstMarker_DocOnly(field) ==
    field.doc /= <<>> /\ groupHasMarker(field.doc)

\* hasConstMarker after the doc comments and the inline comments were looked at
hasConstMarker(field) ==
    IF field.doc /= <<>> /\ groupHasMarker(field.doc) THEN TRUE
    ELSE field.comment /= <<>> /\ groupHasMarker(field.comment)

\* the entries the case adds to constFields for the type declaration node at d;
\* a later field or name overwrites the position an earlier one stored
typeSpecEntries(node, d) ==
    IF ~node.isStruct THEN EmptyMap
    ELSE LET hit == UNION {{[f |-> f, k |-> k] : k \in DOMAIN node.fields[f].names} :
                           f \in {x \in DOMAIN node.fields : hasConstMarker(node.fields[x])}}
             NameAt(x) == node.fields[x.f].names[x.k]
             cfs == {[structType |-> node.obj, fieldName |-> NameAt(x)] : x \in hit}
         IN  [cf \in cfs |->
                 LET x == CHOOSE y \in hit :
                              /\ NameAt(y) = cf.fieldName
                              /\ \A z \in hit :
                                    NameAt(z) = cf.fieldName
                                        => (z.f < y.f \/ (z.f = y.f /\ z.k <= y.k))
                 IN  FieldPos(d, x.f, x.k)]

(***************************************************************************)
(* First pass, case *ast.FuncDecl.                                         *)
(***************************************************************************)
RECURSIVE scanDoc_OpenList(_, _)
\* the loop when a list without its closing bracket runs to the end of the comment
scanDoc_OpenList(doc, i) ==
    IF i > Len(doc) THEN [list |-> <<>>, all |-> FALSE]
    ELSE LET text == doc[i]
             constIndex == Index(text, ListMarker)
             startIdx == constIndex + Len(ListMarker)
             endIdx == IF constIndex /= -1
                       THEN Index(SliceFrom(text, startIdx), <<"]">>)
                       ELSE -1
         IN  IF constIndex /= -1
             THEN [list |-> IF endIdx /= -1 THEN Slice(text, startIdx, startIdx + endIdx)
                            ELSE SliceFrom(text, startIdx),
                   all |-> FALSE]
             ELSE IF TrimSpace(text) = StandaloneMarker
                  THEN [list |-> <<>>, all |-> TRUE]
                  ELSE scanDoc_OpenList(doc, i + 1)

RECURSIVE scanDoc(_, _)
\* the loop over node.Doc.List from comment i on: constParamList and allParamsConst
scanDoc(doc, i) ==
    IF i > Len(doc) THEN [list |-> <<>>, all |-> FALSE]
    ELSE LET text == doc[i]
             constIndex == Index(text, ListMarker)
             startIdx == constIndex + Len(ListMarker)
             endIdx == IF constIndex /= -1
                       THEN Index(SliceFrom(text, startIdx), <<"]">>)
                       ELSE -1
         IN  IF constIndex /= -1 /\ endIdx /= -1
             THEN [list |-> Slice(text, startIdx, startIdx + endIdx), all |-> FALSE]
             ELSE IF TrimSpace(text) = StandaloneMarker
                  THEN [list |-> <<>>, all |-> TRUE]
                  ELSE scanDoc(doc, i + 1)

\* paramNames: every declared parameter, or the trimmed pieces of the list
paramNames(node, found) ==
    IF found.all THEN node.params
    ELSE LET pieces == Split(found.list, ",")
         IN  [i \in DOMAIN pieces |-> TrimSpace(pieces[i])]

\* the entries the case adds to constParams for the function declaration node at d
funcDeclEntries(u, node, d) ==
    IF node.doc = <<>> THEN EmptyMap
    ELSE LET found == scanDoc(node.doc, 1)
         IN  IF found.list = <<>> /\ ~found.all THEN EmptyMap
             ELSE LET names == paramNames(node, found)
                      cps == {[funcName |-> node.name, paramName |-> names[i],
                               packagePath |-> PkgPath(u)] : i \in DOMAIN names}
                  IN  [cp \in cps |-> FuncPos(d)]

(***************************************************************************)
(* Second pass: the checks of one left-hand target.                        *)
(***************************************************************************)
\* the next node from declaration d on that the filter of the first Preorder lets
\* through (*ast.TypeSpec, *ast.FuncDecl); past the end when there is none
nextDecl(u, d) ==
    LET hits == {i \in d..Len(Decls(u)) : Decls(u)[i].kind \in {"type", "func"}}
    IN  IF hits = {} THEN Len(Decls(u)) + 1
        ELSE CHOOSE i \in hits : \A j \in hits : i <= j

\* astPath: the nodes ast.Inspect met before the target in the file of the target,
\* here the declarations of that file up to the one the target lies in
astPath(u, target) ==
    LET first == fileStart(u, target.decl)
    IN  [path |-> [i \in 1..(target.decl - first + 1) |-> first + i - 1], found |-> TRUE]

\* the loop over the path from its end: the last *ast.FuncDecl of it, 0 for nil
lastFuncDecl(u, path) ==
    LET fds == {i \in DOMAIN path : Decls(u)[path[i]].kind = "func"}
    IN  IF fds = {} THEN 0
        ELSE path[CHOOSE i \in fds : \A j \in fds : j <= i]

\* ptr.Elem() when the type is a pointer, the type itself otherwise
derefOnce(t) == IF t.ptr > 0 THEN [ptr |-> t.ptr - 1, named |-> t.named] ELSE t

\* the types.Named the type is, once it is no pointer
IsNamed(t) == t.ptr = 0 /\ t.named \in TypeObjs

\* isInstanciator when only the statements up to the target's are searched
isInstanciator_UpToTarget(u, target, namedType) ==
    LET funcDecl == lastFuncDecl(u, astPath(u, target).path)
    IN  IF funcDecl = 0 THEN FALSE
        ELSE LET body == Decls(u)[funcDecl].body
             IN  \E st \in DOMAIN body : \E i \in DOMAIN body[st].lits :
                    /\ st <= target.stmt
                    /\ body[st].lits[i].type /= NoType
                    /\ Identical(derefOnce(body[st].lits[i].type), namedType)

\* isInstanciator: the enclosing function's body contains a composite literal of namedType
isInstanciator(u, target, namedType) ==
    LET funcDecl == lastFuncDecl(u, astPath(u, target).path)
    IN  IF funcDecl = 0 THEN FALSE
        ELSE LET body == Decls(u)[funcDecl].body
             IN  \E st \in DOMAIN body : \E i \in DOMAIN body[st].lits :
                    LET litType == body[st].lits[i].type
                    IN  /\ litType /= NoType
                        /\ Identical(derefOnce(litType), namedType)

\* the diagnostic of a field write
FieldDiag(target, typeName, fieldName, fieldPos) ==
    [pos |-> target, kind |-> "field", owner |-> TypeNameOf(typeName),
     name |-> fieldName, markedAt |-> fieldPos]

\* the diagnostic of a parameter write
ParamDiag(target, name, paramPos) ==
    [pos |-> target, kind |-> "param", owner |-> "", name |-> name, markedAt |-> paramPos]

\* checkAssignment when the table is not looked up
checkAssignment_NoLookup(u, target, expr, cFields) ==
    IF expr.kind /= "sel" \/ expr.selKind /= "FieldVal" THEN <<>>
    ELSE IF ~(IsNamed(expr.recv) \/ (expr.recv.ptr > 0 /\ IsNamed(derefOnce(expr.recv))))
         THEN <<>>
    ELSE LET namedType == derefOnce(expr.recv)
         IN  IF ~isInstanciator(u, target, namedType)
             THEN <<FieldDiag(target, namedType.named, expr.sel, target)>>
             ELSE <<>>

\* checkAssignment when fields are looked up by the name of the type
checkAssignment_ByName(u, target, expr, cFields) ==
    IF expr.kind /= "sel" \/ expr.selKind /= "FieldVal" THEN <<>>
    ELSE IF ~(IsNamed(expr.recv) \/ (expr.recv.ptr > 0 /\ IsNamed(derefOnce(expr.recv))))
         THEN <<>>
    ELSE LET namedType == derefOnce(expr.recv)
             cfs == {k \in DOMAIN cFields :
                        /\ TypeNameOf(k.structType) = TypeNameOf(namedType.named)
                        /\ k.fieldName = expr.sel}
         IN  IF cfs /= {} /\ ~isInstanciator(u, target, namedType)
             THEN <<FieldDiag(target, namedType.named, expr.sel,
                              cFields[CHOOSE k \in cfs : TRUE])>>
             ELSE <<>>

\* checkAssignment: the diagnostics (none or one) for the target expr at position target
checkAssignment(u, target, expr, cFields) ==
    IF expr.kind /= "sel" THEN <<>>
    ELSE IF expr.selKind /= "FieldVal" THEN <<>>
    ELSE IF ~(IsNamed(expr.recv) \/ (expr.recv.ptr > 0 /\ IsNamed(derefOnce(expr.recv))))
         THEN <<>>
    ELSE LET namedType == derefOnce(expr.recv)
             cf == [structType |-> namedType.named, fieldName |-> expr.sel]
         IN  IF cf \in DOMAIN cFields /\ ~isInstanciator(u, target, namedType)
             THEN <<FieldDiag(target, namedType.named, expr.sel, cFields[cf])>>
             ELSE <<>>

\* checkFieldAssignment calls checkAssignment
checkFieldAssignment(u, target, expr, cFields) == checkAssignment(u, target, expr, cFields)

\* checkParamAssignment when a function that builds a composite literal is exempted
checkParamAssignment_Exempting(u, target, expr, cParams) ==
    IF expr.kind /= "ident" THEN <<>>
    ELSE LET funcDecl == lastFuncDecl(u, astPath(u, target).path)
         IN  IF funcDecl = 0 \/ expr.obj = "nil" THEN <<>>
             ELSE LET cp == [funcName |-> Decls(u)[funcDecl].name,
                             paramName |-> expr.name,
                             packagePath |-> PkgPath(u)]
                      body == Decls(u)[funcDecl].body
                  IN  IF cp \in DOMAIN cParams /\ \A st \in DOMAIN body : body[st].lits = <<>>
                      THEN <<ParamDiag(target, expr.name, cParams[cp])>>
                      ELSE <<>>

\* checkParamAssignment: the diagnostics (none or one) for the target expr at position target
checkParamAssignment(u, target, expr, cParams) ==
    IF expr.kind /= "ident" THEN <<>>
    ELSE LET p == astPath(u, target)
             funcDecl == lastFuncDecl(u, p.path)
         IN  IF ~p.found \/ funcDecl = 0 THEN <<>>
             ELSE IF expr.obj = "nil" THEN <<>>
             ELSE LET cp == [funcName |-> Decls(u)[funcDecl].name,
                             paramName |-> expr.name,
                             packagePath |-> PkgPath(u)]
                  IN  IF cp \in DOMAIN cParams
                      THEN <<ParamDiag(target, expr.name, cParams[cp])>>
                      ELSE <<>>

RECURSIVE checkTargets_StopAtFirst(_, _, _, _, _, _)
\* the loop when it ends at the first target that was reported
checkTargets_StopAtFirst(u, n, lhs, l, cFields, cParams) ==
    IF l > Len(lhs) THEN <<>>
    ELSE LET here == checkFieldAssignment(u, SitePos(n.decl, n.stmt, l), lhs[l], cFields)
                     \o checkParamAssignment(u, SitePos(n.decl, n.stmt, l), lhs[l], cParams)
         IN  IF here /= <<>> THEN here
             ELSE checkTargets_StopAtFirst(u, n, lhs, l + 1, cFields, cParams)

RECURSIVE checkTargets(_, _, _, _, _, _)
\* the loop over assignStmt.Lhs from target l on
checkTargets(u, n, lhs, l, cFields, cParams) ==
    IF l > Len(lhs) THEN <<>>
    ELSE checkFieldAssignment(u, SitePos(n.decl, n.stmt, l), lhs[l], cFields)
         \o checkParamAssignment(u, SitePos(n.decl, n.stmt, l), lhs[l], cParams)
         \o checkTargets(u, n, lhs, l + 1, cFields, cParams)

\* the callback when it does not skip the statements whose token is token.DEFINE
visitAssign_NoSkip(u, n, cFields, cParams) ==
    checkTargets(u, n, Decls(u)[n.decl].body[n.stmt].lhs, 1, cFields, cParams)

\* the callback of the second Preorder on the assignment statement n
visitAssign(u, n, cFields, cParams) ==
    LET assignStmt == Decls(u)[n.decl].body[n.stmt]
    IN  IF assignStmt.tok = ":=" THEN <<>>
        ELSE checkTargets(u, n, assignStmt.lhs, 1, cFields, cParams)

(***************************************************************************)
(* The run of the analyzer as a state machine.                             *)
(***************************************************************************)
Init ==
    /\ pc = "idle"
    /\ loaded = 0
    /\ unit = [types |-> <<>>, funcs |-> <<>>, layout |-> "plain"]
    /\ cur = 1
    /\ constFields = EmptyMap
    /\ constParams = EmptyMap
    /\ diags = <<>>

\* the driver calls run on the next unit of the program: both maps are made anew
Run(u) ==
    /\ pc \in {"idle", "done"}
    /\ loaded + Size(u) <= MaxFuncs
    /\ loaded' = loaded + Size(u)
    /\ unit' = u
    /\ constFields' = EmptyMap
    /\ constParams' = EmptyMap
    /\ diags' = <<>>
    /\ cur' = 1
    /\ pc' = "index"

\* first Preorder, case *ast.TypeSpec
IndexTypeSpec ==
    /\ pc = "index"
    /\ LET d == nextDecl(unit, cur)
       IN  /\ d <= Len(Decls(unit))
           /\ Decls(unit)[d].kind = "type"
           /\ constFields' = Store(constFields, typeSpecEntries(Decls(unit)[d], d))
           /\ cur' = d + 1
    /\ UNCHANGED <<pc, loaded, unit, constParams, diags>>

\* first Preorder, case *ast.FuncDecl
IndexFuncDecl ==
    /\ pc = "index"
    /\ LET d == nextDecl(unit, cur)
       IN  /\ d <= Len(Decls(unit))
           /\ Decls(unit)[d].kind = "func"
           /\ constParams' = Store(constParams, funcDeclEntries(unit, Decls(unit)[d], d))
           /\ cur' = d + 1
    /\ UNCHANGED <<pc, loaded, unit, constFields, diags>>

\* the first Preorder returns, the second begins
BeginScan ==
    /\ pc = "index"
    /\ nextDecl(unit, cur) > Len(Decls(unit))
    /\ pc' = "scan"
    /\ cur' = 1
    /\ UNCHANGED <<loaded, unit, constFields, constParams, diags>>

\* second Preorder: the callback on the next assignment statement
VisitAssign ==
    /\ pc = "scan"
    /\ LET nodes == AssignNodes(unit)
       IN  /\ cur <= Len(nodes)
           /\ diags' = diags \o visitAssign(unit, nodes[cur], constFields, constParams)
    /\ cur' = cur + 1
    /\ UNCHANGED <<pc, loaded, unit, constFields, constParams>>

\* the second Preorder returns and run returns nil, nil
Return ==
    /\ pc = "scan"
    /\ cur > Len(AssignNodes(unit))
    /\ pc' = "done"
    /\ UNCHANGED <<loaded, unit, cur, constFields, constParams, diags>>

\* the driver hands the next unit of the program to run
Driver ==
    /\ pc \in {"idle", "done"}
    /\ \E u \in UnitsUpTo(MaxFuncs - loaded) : Run(u)

Next ==
    \/ Driver
    \/ IndexTypeSpec
    \/ IndexFuncDecl
    \/ BeginScan
    \/ VisitAssign
    \/ Return

Spec == Init /\ [][Next]_vars

(***************************************************************************)
(* Vocabulary of the properties: what the sources say, read off the        *)
(* declarations without the analyzer's own parsing.                        *)
(***************************************************************************)
\* the assignment statements the second pass has visited so far
VisitedStmts ==
    IF pc \in {"scan", "done"}
    THEN LET nodes == AssignNodes(unit)
         IN  {nodes[i] : i \in 1..(cur - 1)}
    ELSE {}

\* those of them that lie in a function declaration, their enclosing routine
VisitedNodes ==
    LET ds == Decls(unit)
    IN  {n \in VisitedStmts : ds[n.decl].kind = "func"}

\* the left-hand targets of the visited assignment statements of the routines
VisitedTargets ==
    LET ds == Decls(unit)
    IN  UNION {{SitePos(n.decl, n.stmt, l) :
                   l \in DOMAIN ds[n.decl].body[n.stmt].lhs} : n \in VisitedNodes}

\* the left-hand targets of all the visited assignment statements
VisitedSites ==
    LET ds == Decls(unit)
    IN  UNION {{SitePos(n.decl, n.stmt, l) :
                   l \in DOMAIN ds[n.decl].body[n.stmt].lhs} : n \in VisitedStmts}

\* the site lies in the body of a function declaration
InRoutine(t) == Decls(unit)[t.decl].kind = "func"

StmtAt(t) == Decls(unit)[t.decl].body[t.stmt]

ExprAt(t) == StmtAt(t).lhs[t.lhs]

\* the function declaration whose body the target lies in
RoutineAt(t) == Decls(unit)[t.decl]

DiagsAt(t) == {i \in DOMAIN diags : diags[i].pos = t}

\* a comment line that is the marker "+const" and nothing else
IsPlainMarker(text) == text \in {CmtConst, CmtConstTrail}

\* the field carries the marker in its doc comment or in its inline comment
CarriesMarker(field) ==
    \/ \E i \in DOMAIN field.doc : IsPlainMarker(field.doc[i])
    \/ \E i \in DOMAIN field.comment : IsPlainMarker(field.comment[i])

\* the target is a field selection instance.F on a receiver of static type T or *T
IsFieldWriteOf(t, T) ==
    /\ ExprAt(t).kind = "sel"
    /\ ExprAt(t).selKind = "FieldVal"
    /\ ExprAt(t).recv \in {Named(T), PtrTo(Named(T))}

\* the places [d, f, k] where the unit declares a field named F of the struct type T
FieldDecls(T, F) ==
    UNION {UNION {{[d |-> d, f |-> f, k |-> k] :
                      k \in {x \in DOMAIN Decls(unit)[d].fields[f].names :
                                Decls(unit)[d].fields[f].names[x] = F}} :
                  f \in DOMAIN Decls(unit)[d].fields} :
           d \in {x \in DOMAIN Decls(unit) :
                     /\ Decls(unit)[x].kind = "type"
                     /\ Decls(unit)[x].isStruct
                     /\ Decls(unit)[x].obj = T}}

\* the names of the declaration pool that start with New, Create, Init or Make
ConstructorNames == {"CreatePerson", "NewPersonNamed", "InitName"}

IsMethodOf(fd, T) == fd.recv \in {Named(T), PtrTo(Named(T))}

ReturnsOwner(fd, T) ==
    \E i \in DOMAIN fd.results : fd.results[i] \in {Named(T), PtrTo(Named(T))}

\* the body contains T{...} or &T{...}
BuildsOwner(fd, T) ==
    \E st \in DOMAIN fd.body : \E i \in DOMAIN fd.body[st].lits :
        fd.body[st].lits[i].type = Named(T)

\* the routine is an initialization context for T by one of the three rules
InitContext(fd, T) ==
    \/ IsMethodOf(fd, T) /\ fd.name \in ConstructorNames
    \/ ReturnsOwner(fd, T)
    \/ BuildsOwner(fd, T)

(***************************************************************************)
(* C1                                                                      *)
(***************************************************************************)
\* C1: a visited assignment to instance.F, F a field of the unit's struct type T
\* that carries +const in its doc or inline comment, in a routine that is no
\* initialization context for T, has exactly one diagnostic, at the target,
\* naming F and T and the position of F's declaration.
C1_OneFieldDiagnostic ==
    \A t \in VisitedTargets : \A T \in TypeObjs :
        (/\ StmtAt(t).tok /= ":="
         /\ IsFieldWriteOf(t, T)
         /\ ~InitContext(RoutineAt(t), T))
        => \A x \in FieldDecls(T, ExprAt(t).sel) :
              CarriesMarker(Decls(unit)[x.d].fields[x.f])
              => /\ Cardinality(DiagsAt(t)) = 1
                 /\ \A i \in DiagsAt(t) :
                       diags[i] = [pos |-> t, kind |-> "field",
                                   owner |-> TypeNameOf(T), name |-> ExprAt(t).sel,
                                   markedAt |-> FieldPos(x.d, x.f, x.k)]

\* C1 witness: the pass is over and reported a write through a pointer to a field
\* marked in its doc comment and a write on a value to a field marked inline
C1_Witness ==
    /\ pc = "done"
    /\ \E t \in VisitedTargets : \E T \in TypeObjs : \E x \in FieldDecls(T, ExprAt(t).sel) :
          /\ IsFieldWriteOf(t, T) /\ ExprAt(t).recv = PtrTo(Named(T))
          /\ ~InitContext(RoutineAt(t), T)
          /\ \E i \in DOMAIN Decls(unit)[x.d].fields[x.f].doc :
                IsPlainMarker(Decls(unit)[x.d].fields[x.f].doc[i])
          /\ Cardinality(DiagsAt(t)) = 1
    /\ \E t \in VisitedTargets : \E T \in TypeObjs : \E x \in FieldDecls(T, ExprAt(t).sel) :
          /\ IsFieldWriteOf(t, T) /\ ExprAt(t).recv = Named(T)
          /\ ~InitContext(RoutineAt(t), T)
          /\ \E i \in DOMAIN Decls(unit)[x.d].fields[x.f].comment :
                IsPlainMarker(Decls(unit)[x.d].fields[x.f].comment[i])
          /\ Cardinality(DiagsAt(t)) = 1

(***************************************************************************)
(* C2                                                                      *)
(***************************************************************************)
\* a doc comment line that is a closed explicit list, and the names it lists
IsListLine(text) ==
    text \in {CmtListNameAge, CmtListP, CmtListData, CmtListName, CmtListNameTotal}

ListedNames(text) ==
    CASE text = CmtListNameAge -> {N_name, N_age}
      [] text = CmtListP -> {N_p}
      [] text = CmtListData -> {N_data}
      [] text = CmtListName -> {N_name}
      [] text = CmtListNameTotal -> {N_name, N_total}
      [] OTHER -> {}

\* the parameters of the function declaration
ParamsOf(fd) == {fd.params[i] : i \in DOMAIN fd.params}

\* the parameters the doc comment marks: those of its first marker line
MarkedParams(fd) ==
    LET lines == {i \in DOMAIN fd.doc : IsListLine(fd.doc[i]) \/ IsPlainMarker(fd.doc[i])}
    IN  IF lines = {} THEN {}
        ELSE LET first == CHOOSE i \in lines : \A j \in lines : i <= j
             IN  IF IsListLine(fd.doc[first]) THEN ListedNames(fd.doc[first]) \cap ParamsOf(fd)
                 ELSE ParamsOf(fd)

\* the target is a bare name that resolves to the parameter of its routine
IsParamWrite(t) ==
    /\ ExprAt(t).kind = "ident"
    /\ ExprAt(t).obj = "param"
    /\ ExprAt(t).name \in ParamsOf(RoutineAt(t))

\* the body of the routine contains a composite literal
HasLiteral(fd) == \E st \in DOMAIN fd.body : fd.body[st].lits /= <<>>

\* C2: a visited assignment to a parameter P that the doc comment of its routine
\* marks, by an explicit list or by the standalone marker, has exactly one
\* diagnostic, a parameter diagnostic naming P, whatever the routine builds.
C2_OneParamDiagnostic ==
    \A t \in VisitedTargets :
        (/\ StmtAt(t).tok /= ":="
         /\ IsParamWrite(t)
         /\ ExprAt(t).name \in MarkedParams(RoutineAt(t)))
        => /\ Cardinality(DiagsAt(t)) = 1
           /\ \A i \in DiagsAt(t) :
                 /\ diags[i].kind = "param"
                 /\ diags[i].name = ExprAt(t).name

\* C2 witness: the pass is over; a parameter covered by the standalone marker and a
\* parameter named in a list were each written in a routine that builds a literal,
\* and each write was reported
C2_Witness ==
    /\ pc = "done"
    /\ \E t \in VisitedTargets :
          /\ IsParamWrite(t) /\ StmtAt(t).tok /= ":="
          /\ HasLiteral(RoutineAt(t))
          /\ \E i \in DOMAIN RoutineAt(t).doc : IsPlainMarker(RoutineAt(t).doc[i])
          /\ Cardinality(DiagsAt(t)) = 1
    /\ \E t \in VisitedTargets :
          /\ IsParamWrite(t) /\ StmtAt(t).tok /= ":="
          /\ HasLiteral(RoutineAt(t))
          /\ \E i \in DOMAIN RoutineAt(t).doc : IsListLine(RoutineAt(t).doc[i])
          /\ Cardinality(DiagsAt(t)) = 1

(***************************************************************************)
(* C3                                                                      *)
(***************************************************************************)
\* C3: a visited write to a field of T has no diagnostic when the body of its
\* routine contains a composite literal T{...} or &T{...}, wherever it stands.
C3_LiteralExempts ==
    \A t \in VisitedTargets : \A T \in TypeObjs :
        (IsFieldWriteOf(t, T) /\ BuildsOwner(RoutineAt(t), T))
        => DiagsAt(t) = {}

\* C3 witness: a visited write to an indexed +const field of T, in a routine that
\* is no method of T, is not named like a constructor and does not return T, and
\* whose only literal of T stands after the write
C3_Witness ==
    \E t \in VisitedTargets : \E T \in TypeObjs :
        /\ IsFieldWriteOf(t, T)
        /\ [structType |-> T, fieldName |-> ExprAt(t).sel] \in DOMAIN constFields
        /\ ~IsMethodOf(RoutineAt(t), T)
        /\ RoutineAt(t).name \notin ConstructorNames
        /\ ~ReturnsOwner(RoutineAt(t), T)
        /\ BuildsOwner(RoutineAt(t), T)
        /\ \A st \in DOMAIN RoutineAt(t).body :
              (\E i \in DOMAIN RoutineAt(t).body[st].lits :
                  RoutineAt(t).body[st].lits[i].type = Named(T)) => st > t.stmt
        /\ DiagsAt(t) = {}

(***************************************************************************)
(* C4                                                                      *)
(***************************************************************************)
\* C4: a visited write to a field of T has no diagnostic when the result list of
\* its routine includes T or *T.
C4_ReturnExempts ==
    \A t \in VisitedTargets : \A T \in TypeObjs :
        (IsFieldWriteOf(t, T) /\ ReturnsOwner(RoutineAt(t), T))
        => DiagsAt(t) = {}

(***************************************************************************)
(* C5                                                                      *)
(***************************************************************************)
\* C5: a visited write to a field of T has no diagnostic when its routine is a
\* method of T whose name starts with New, Create, Init or Make.
C5_ConstructorNameExempts ==
    \A t \in VisitedTargets : \A T \in TypeObjs :
        (/\ IsFieldWriteOf(t, T)
         /\ IsMethodOf(RoutineAt(t), T)
         /\ RoutineAt(t).name \in ConstructorNames)
        => DiagsAt(t) = {}

(***************************************************************************)
(* C6                                                                      *)
(***************************************************************************)
\* C6: no target of a visited statement of the form := has a diagnostic.
C6_DefineNeverReported ==
    \A t \in VisitedTargets : StmtAt(t).tok = ":=" => DiagsAt(t) = {}

\* C6 witness: a visited := whose target is named like a parameter that is indexed
\* as immutable for the enclosing routine, in a pass that reported nothing there
C6_Witness ==
    \E t \in VisitedTargets :
        /\ StmtAt(t).tok = ":="
        /\ ExprAt(t).kind = "ident"
        /\ [funcName |-> RoutineAt(t).name, paramName |-> ExprAt(t).name,
            packagePath |-> PkgPath(unit)] \in DOMAIN constParams
        /\ ExprAt(t).name \in MarkedParams(RoutineAt(t))
        /\ DiagsAt(t) = {}

(***************************************************************************)
(* C7                                                                      *)
(***************************************************************************)
\* the names the first marker line of the doc comment makes immutable
RawMarked(fd) ==
    LET lines == {i \in DOMAIN fd.doc : IsListLine(fd.doc[i]) \/ IsPlainMarker(fd.doc[i])}
    IN  IF lines = {} THEN {}
        ELSE LET first == CHOOSE i \in lines : \A j \in lines : i <= j
             IN  IF IsListLine(fd.doc[first]) THEN ListedNames(fd.doc[first])
                 ELSE ParamsOf(fd)

\* the function declarations of the unit
FuncDeclsOfUnit == {d \in DOMAIN Decls(unit) : Decls(unit)[d].kind = "func"}

\* no comment of any declaration of the field F of T mentions a marker
Unmarked(T, F) ==
    \A x \in FieldDecls(T, F) :
        LET field == Decls(unit)[x.d].fields[x.f]
        IN  /\ \A i \in DOMAIN field.doc : field.doc[i] = CmtPlain
            /\ \A i \in DOMAIN field.comment : field.comment[i] = CmtPlain

\* no function declaration of the unit that is called fn marks the name
Unlisted(fn, name) ==
    \A d \in FuncDeclsOfUnit :
        Decls(unit)[d].name = fn => name \notin RawMarked(Decls(unit)[d])

\* C7: every diagnostic of a write in a routine has its key in the table of its
\* kind; a write to a field that no comment marks, and a write to a name that no
\* marker of its routine names, have no diagnostic.
C7_AbsentKeyNoDiagnostic ==
    /\ \A i \in DOMAIN diags :
          LET t == diags[i].pos
          IN  /\ diags[i].kind = "field"
                    => /\ ExprAt(t).kind = "sel"
                       /\ [structType |-> ExprAt(t).recv.named,
                           fieldName |-> ExprAt(t).sel] \in DOMAIN constFields
              /\ (diags[i].kind = "param" /\ InRoutine(t))
                    => /\ ExprAt(t).kind = "ident"
                       /\ [funcName |-> RoutineAt(t).name, paramName |-> ExprAt(t).name,
                           packagePath |-> PkgPath(unit)] \in DOMAIN constParams
    /\ \A t \in VisitedTargets :
          /\ \A T \in TypeObjs :
                (IsFieldWriteOf(t, T) /\ Unmarked(T, ExprAt(t).sel)) => DiagsAt(t) = {}
          /\ (ExprAt(t).kind = "ident" /\ Unlisted(RoutineAt(t).name, ExprAt(t).name))
                => DiagsAt(t) = {}

\* C7 witness: the pass is over; it visited a write to an unmarked field of a type
\* another field of which is indexed, and a write to a parameter that the list of
\* its routine does not name, and reported neither
C7_Witness ==
    /\ pc = "done"
    /\ \E t \in VisitedTargets : \E T \in TypeObjs :
          /\ IsFieldWriteOf(t, T) /\ StmtAt(t).tok = "="
          /\ FieldDecls(T, ExprAt(t).sel) /= {}
          /\ Unmarked(T, ExprAt(t).sel)
          /\ \E k \in DOMAIN constFields : k.structType = T
          /\ ~BuildsOwner(RoutineAt(t), T)
          /\ DiagsAt(t) = {}
    /\ \E t \in VisitedTargets :
          /\ IsParamWrite(t) /\ StmtAt(t).tok = "="
          /\ \E i \in DOMAIN RoutineAt(t).doc : IsListLine(RoutineAt(t).doc[i])
          /\ Unlisted(RoutineAt(t).name, ExprAt(t).name)
          /\ DiagsAt(t) = {}

(***************************************************************************)
(* C8                                                                      *)
(***************************************************************************)
\* C8: every field diagnostic cites a declaration, in this unit, of that field of
\* the very type that is written to; every entry of the two tables comes from a
\* declaration of this unit; and a pass starts with both tables empty.
C8_KeyedByIdentity ==
    /\ \A i \in DOMAIN diags :
          diags[i].kind = "field"
          => \E x \in FieldDecls(ExprAt(diags[i].pos).recv.named, ExprAt(diags[i].pos).sel) :
                diags[i].markedAt = FieldPos(x.d, x.f, x.k)
    /\ \A k \in DOMAIN constFields :
          \E x \in FieldDecls(k.structType, k.fieldName) :
              constFields[k] = FieldPos(x.d, x.f, x.k)
    /\ \A k \in DOMAIN constParams :
          \E d \in FuncDeclsOfUnit :
              /\ Decls(unit)[d].name = k.funcName
              /\ k.packagePath = PkgPath(unit)
              /\ constParams[k] = FuncPos(d)
    /\ (pc = "index" /\ cur = 1) => (constFields = EmptyMap /\ constParams = EmptyMap)

\* C8 witness: in the pass over a later unit of the program, a write to the field
\* Name of one type Person was visited and not reported while the field Name of
\* the other type Person is indexed
C8_Witness ==
    /\ pc = "done"
    /\ loaded > Len(unit.funcs)
    /\ \E t \in VisitedTargets : \E T1, T2 \in TypeObjs :
          /\ T1 /= T2 /\ TypeNameOf(T1) = TypeNameOf(T2)
          /\ IsFieldWriteOf(t, T2)
          /\ FieldDecls(T2, ExprAt(t).sel) /= {}
          /\ [structType |-> T1, fieldName |-> ExprAt(t).sel] \in DOMAIN constFields
          /\ [structType |-> T2, fieldName |-> ExprAt(t).sel] \notin DOMAIN constFields
          /\ ~BuildsOwner(RoutineAt(t), T2)
          /\ DiagsAt(t) = {}

(***************************************************************************)
(* C9                                                                      *)
(***************************************************************************)
\* the declarations the first pass has indexed so far
IndexedDecls ==
    CASE pc = "index" -> 1..(cur - 1)
      [] pc \in {"scan", "done"} -> DOMAIN Decls(unit)
      [] OTHER -> {}

\* the only marker text of the field is the unclosed "+const:["
OnlyMalformed(field) ==
    /\ ~CarriesMarker(field)
    /\ \/ \E i \in DOMAIN field.doc : field.doc[i] = CmtOpenBare
       \/ \E i \in DOMAIN field.comment : field.comment[i] = CmtOpenBare

\* the places of the indexed declarations where a field has only the malformed marker
MalformedFields ==
    UNION {UNION {{[d |-> d, f |-> f, k |-> k] : k \in DOMAIN Decls(unit)[d].fields[f].names} :
                  f \in {y \in DOMAIN Decls(unit)[d].fields :
                            OnlyMalformed(Decls(unit)[d].fields[y])}} :
           d \in {x \in IndexedDecls : Decls(unit)[x].kind = "type"}}

IsOpenList(text) == text \in {CmtOpenList, CmtOpenBare}

HasOpenList(fd) == \E i \in DOMAIN fd.doc : IsOpenList(fd.doc[i])

\* the indexed function declarations called fn
IndexedFuncs(fn) ==
    {d \in IndexedDecls : Decls(unit)[d].kind = "func" /\ Decls(unit)[d].name = fn}

\* C10: in a unit with a doc comment whose list marker is never closed, the
\* parameter table holds for every indexed function exactly the names its doc
\* comment marks once the unclosed line is left out, at the position of the
\* declaration; and a write to a parameter of a routine whose only marker is
\* unclosed has no diagnostic.
C10_OpenListIgnored ==
    (\E d \in FuncDeclsOfUnit : HasOpenList(Decls(unit)[d]))
    => /\ \A d \in IndexedDecls :
             Decls(unit)[d].kind = "func"
             => /\ {k.paramName : k \in {x \in DOMAIN constParams :
                                           x.funcName = Decls(unit)[d].name}}
                     = UNION {RawMarked(Decls(unit)[e]) : e \in IndexedFuncs(Decls(unit)[d].name)}
                /\ \A k \in DOMAIN constParams :
                      k.funcName = Decls(unit)[d].name
                      => \E e \in IndexedFuncs(k.funcName) : constParams[k] = FuncPos(e)
       /\ \A t \in VisitedTargets :
             (/\ ExprAt(t).kind = "ident"
              /\ HasOpenList(RoutineAt(t))
              /\ RawMarked(RoutineAt(t)) = {})
             => DiagsAt(t) = {}

\* C10 witness: the pass is over; it visited, without reporting it, a write to a
\* parameter named in an unclosed list, and it reported a write of another routine
C10_Witness ==
    /\ pc = "done"
    /\ \E t \in VisitedTargets :
          /\ IsParamWrite(t) /\ StmtAt(t).tok = "="
          /\ \E i \in DOMAIN RoutineAt(t).doc :
                RoutineAt(t).doc[i] = CmtOpenList /\ ExprAt(t).name = N_name
          /\ RawMarked(RoutineAt(t)) = {}
          /\ DiagsAt(t) = {}
    /\ \E i \in DOMAIN diags :
          InRoutine(diags[i].pos) /\ ~HasOpenList(RoutineAt(diags[i].pos))

(***************************************************************************)
(* C11                                                                     *)
(***************************************************************************)
\* the doc comment has a closed explicit list and a standalone marker
HasBothForms(fd) ==
    /\ \E i \in DOMAIN fd.doc : IsListLine(fd.doc[i])
    /\ \E i \in DOMAIN fd.doc : IsPlainMarker(fd.doc[i])

\* the names the explicit lists of the doc comment name
AllListed(fd) == UNION {ListedNames(fd.doc[i]) : i \in DOMAIN fd.doc}

\* no other function declaration of the unit has the name of declaration d
OnlyOfItsName(d) ==
    \A e \in FuncDeclsOfUnit : Decls(unit)[e].name = Decls(unit)[d].name => e = d

\* C11: for a routine whose doc comment has both an explicit list and the
\* standalone marker, in either order, exactly the listed parameters are in the
\* parameter table, a visited write to a listed parameter has one diagnostic and
\* a visited write to an unlisted parameter has none.
C11_ListTakesPrecedence ==
    /\ \A d \in IndexedDecls :
          (/\ Decls(unit)[d].kind = "func"
           /\ HasBothForms(Decls(unit)[d])
           /\ OnlyOfItsName(d))
          => {k.paramName : k \in {x \in DOMAIN constParams :
                                     x.funcName = Decls(unit)[d].name}}
                \cap ParamsOf(Decls(unit)[d])
             = AllListed(Decls(unit)[d]) \cap ParamsOf(Decls(unit)[d])
    /\ \A t \in VisitedTargets :
          (/\ StmtAt(t).tok /= ":="
           /\ IsParamWrite(t)
           /\ HasBothForms(RoutineAt(t))
           /\ OnlyOfItsName(t.decl))
          => Cardinality(DiagsAt(t))
                = (IF ExprAt(t).name \in AllListed(RoutineAt(t)) THEN 1 ELSE 0)

(***************************************************************************)
(* C12                                                                     *)
(***************************************************************************)
RECURSIVE IndexUpTo(_, _)
\* the two tables once the declarations 1..d of unit u are indexed
IndexUpTo(u, d) ==
    IF d = 0 THEN [fields |-> EmptyMap, params |-> EmptyMap]
    ELSE LET prev == IndexUpTo(u, d - 1)
             node == Decls(u)[d]
         IN  CASE node.kind = "type" ->
                    [fields |-> Store(prev.fields, typeSpecEntries(node, d)),
                     params |-> prev.params]
               [] node.kind = "func" ->
                    [fields |-> prev.fields,
                     params |-> Store(prev.params, funcDeclEntries(u, node, d))]
               [] OTHER -> prev

\* the two tables of unit u when all its declarations are indexed
CompleteIndex(u) == IndexUpTo(u, Len(Decls(u)))

RECURSIVE ScanFrom(_, _)
\* the diagnostics of the assignment statements of unit u from the i-th on,
\* checked against the complete tables
ScanFrom(u, i) ==
    IF i > Len(AssignNodes(u)) THEN <<>>
    ELSE visitAssign(u, AssignNodes(u)[i], CompleteIndex(u).fields, CompleteIndex(u).params)
         \o ScanFrom(u, i + 1)

\* which declaration of the program the d-th declaration of unit u is, wherever
\* the layout of u puts it
Origin(u, d) ==
    LET T == Len(u.types)
        F == Len(u.funcs)
    IN  CASE u.layout = "plain" ->
                IF d <= T THEN <<"type", u.types[d]>> ELSE <<"func", u.funcs[d - T]>>
          [] u.layout = "typesLater" ->
                IF d <= F THEN <<"func", u.funcs[d]>> ELSE <<"type", u.types[d - F]>>
          [] u.layout = "hookFirst" ->
                IF d <= T THEN <<"type", u.types[d]>>
                ELSE IF d = T + 1 THEN <<"var", 1>>
                ELSE <<"func", u.funcs[d - T - 1]>>
          [] OTHER ->
                IF d <= T THEN <<"type", u.types[d]>>
                ELSE IF d <= T + F THEN <<"func", u.funcs[d - T]>>
                ELSE <<"var", 1>>

\* the diagnostics ds of unit u as a set, every position given by the declaration
\* it lies in instead of the place of that declaration in the source
Located(u, ds) ==
    {[site |-> <<Origin(u, ds[i].pos.decl), ds[i].pos.stmt, ds[i].pos.lhs>>,
      kind |-> ds[i].kind, owner |-> ds[i].owner, name |-> ds[i].name,
      markedAt |-> <<Origin(u, ds[i].markedAt.decl), ds[i].markedAt.field,
                     ds[i].markedAt.name>>] : i \in DOMAIN ds}

\* the units made of the declarations of unit u in another source order
Reordered(u) ==
    {v \in [types : {u.types}, funcs : {u.funcs}, layout : Layouts] :
        /\ v.layout /= "plain" => v.types = <<1>>
        /\ (v.layout \in HookLayouts) = (u.layout \in HookLayouts)}

\* the tables are complete when the second pass begins and stay as they are
TablesComplete ==
    pc \in {"scan", "done"}
    => /\ constFields = CompleteIndex(unit).fields
       /\ constParams = CompleteIndex(unit).params

\* C12: from the first check on both tables are the complete tables of the unit,
\* and the diagnostics of a finished pass are those of the same declarations in
\* any other source order.
C12_OrderIndependent ==
    /\ TablesComplete
    /\ pc = "done"
          => \A v \in Reordered(unit) :
                Located(unit, diags) = Located(v, ScanFrom(v, 1))

(***************************************************************************)
(* C13                                                                     *)
(***************************************************************************)
\* C13: every parameter diagnostic of a write in a routine is at a bare name that
\* resolves to a parameter of that routine; a visited write to a name that
\* resolves to a local variable, to a variable of the package or to the parameter
\* of a function literal has no diagnostic.
C13_OnlyParamBinding ==
    /\ \A i \in DOMAIN diags :
          (diags[i].kind = "param" /\ InRoutine(diags[i].pos)) => IsParamWrite(diags[i].pos)
    /\ \A t \in VisitedTargets :
          (/\ ExprAt(t).kind = "ident"
           /\ ExprAt(t).obj \in {"local", "pkgvar", "litparam"})
          => DiagsAt(t) = {}

(***************************************************************************)
(* C14                                                                     *)
(***************************************************************************)
\* the assignment statements of the unit, in function declarations and in
\* function literals of package-level variables
AllAssignStmts ==
    LET ds == Decls(unit)
    IN  UNION {{[decl |-> d, stmt |-> st] :
                   st \in {x \in DOMAIN ds[d].body : ds[d].body[x].assign}} :
               d \in {x \in DOMAIN ds : ds[x].kind /= "type"}}

\* the diagnostics at the targets of the assignment statement n
DiagsIn(n) == {i \in DOMAIN diags : diags[i].pos.decl = n.decl /\ diags[i].pos.stmt = n.stmt}

\* the target violates a marker by what the sources say: a marked parameter of its
\* routine, or a marked field of a type the routine builds no literal of
Violating(t) ==
    /\ InRoutine(t)
    /\ StmtAt(t).tok /= ":="
    /\ \/ IsParamWrite(t) /\ ExprAt(t).name \in MarkedParams(RoutineAt(t))
       \/ \E T \in TypeObjs :
             /\ IsFieldWriteOf(t, T)
             /\ ~BuildsOwner(RoutineAt(t), T)
             /\ \E x \in FieldDecls(T, ExprAt(t).sel) :
                   CarriesMarker(Decls(unit)[x.d].fields[x.f])

\* the targets of the assignment statement n
TargetsOf(n) ==
    {SitePos(n.decl, n.stmt, l) : l \in DOMAIN Decls(unit)[n.decl].body[n.stmt].lhs}

\* C14: the second pass visits the assignment statements one by one, none twice,
\* and all of them by its end; every diagnostic is at a target of a visited
\* statement that is no define form, no target has two, and within a statement
\* they come in the order of the targets; every violating target of a visited
\* statement has its diagnostic, whatever the other targets of the statement are,
\* so that a statement has at least as many diagnostics as violating targets; a
\* target that is neither a selector nor a bare name has none.
C14_EachTargetChecked ==
    LET stmts == VisitedStmts
        sites == VisitedSites
    IN  /\ pc \in {"scan", "done"} => Cardinality(stmts) = cur - 1
        /\ pc = "done" => stmts = AllAssignStmts
        /\ \A i \in DOMAIN diags :
              /\ diags[i].pos \in sites
              /\ StmtAt(diags[i].pos).tok /= ":="
              /\ \A j \in DOMAIN diags :
                    (i < j /\ diags[j].pos.decl = diags[i].pos.decl
                           /\ diags[j].pos.stmt = diags[i].pos.stmt)
                    => diags[i].pos.lhs < diags[j].pos.lhs
        /\ \A t \in sites :
              /\ Cardinality(DiagsAt(t)) <= 1
              /\ Violating(t) => Cardinality(DiagsAt(t)) = 1
              /\ ExprAt(t).kind = "other" => DiagsAt(t) = {}
        /\ \A n \in stmts :
              Cardinality(DiagsIn(n)) >= Cardinality({t \in TargetsOf(n) : Violating(t)})

\* C14 witness: the pass is over; one visited statement has two violating targets
\* and two diagnostics, another has a target that violates nothing, then a target
\* that is an index expression, then a violating target, and one diagnostic, at
\* the last of them
C14_Witness ==
    /\ pc = "done"
    /\ \E n \in VisitedStmts :
          /\ Cardinality({t \in TargetsOf(n) : Violating(t)}) = 2
          /\ Cardinality(DiagsIn(n)) = 2
    /\ \E n \in VisitedStmts : \E t1, t2, t3 \in TargetsOf(n) :
          /\ t1.lhs < t2.lhs /\ t2.lhs < t3.lhs
          /\ ExprAt(t1).kind = "ident" /\ ~Violating(t1) /\ DiagsAt(t1) = {}
          /\ ExprAt(t2).kind = "other" /\ DiagsAt(t2) = {}
          /\ Violating(t3) /\ Cardinality(DiagsAt(t3)) = 1
          /\ Cardinality(DiagsIn(n)) = 1

(***************************************************************************)
(* C15                                                                     *)
(***************************************************************************)
\* C15: a parameter diagnostic of a write in a routine cites the declaration of
\* that routine, and a visited write to a name that the doc comment of its own
\* routine does not mark has no diagnostic, whatever the other routines of the
\* unit mark.
C15_MarkerStaysInRoutine ==
    /\ \A i \in DOMAIN diags :
          (diags[i].kind = "param" /\ InRoutine(diags[i].pos))
          => diags[i].markedAt = FuncPos(diags[i].pos.decl)
    /\ \A t \in VisitedTargets :
          (/\ ExprAt(t).kind = "ident"
           /\ ExprAt(t).name \notin RawMarked(RoutineAt(t)))
          => DiagsAt(t) = {}

(***************************************************************************)
(* C16                                                                     *)
(***************************************************************************)
\* C16: a visited write that lies in no function declaration has no enclosing
\* routine: when its target is a bare name it has no diagnostic, and when its
\* target is an indexed field it has exactly one, whatever function declarations
\* precede it in its file.
C16_NoEnclosingRoutine ==
    \A t \in VisitedSites :
        (~InRoutine(t) /\ StmtAt(t).tok /= ":=")
        => /\ ExprAt(t).kind = "ident" => DiagsAt(t) = {}
           /\ \A T \in TypeObjs :
                 (/\ IsFieldWriteOf(t, T)
                  /\ [structType |-> T, fieldName |-> ExprAt(t).sel] \in DOMAIN constFields)
                 => Cardinality(DiagsAt(t)) = 1

=============================================================================
